---- MODULE Spec2Model ----
(***************************************************************************)
(* A model of pytoolbox.filemonitor: the action queue, the scheduler loop  *)
(* of FileMonitor.monitor, the change scanner and the re-enumeration, with *)
(* the file system, the persisted cache file and the subscriber as the     *)
(* environment.                                                            *)
(***************************************************************************)
EXTENDS Integers, Sequences, FiniteSets, TLC

VARIABLES
    \* ---- environment
    disk,            \* path -> what os.path.isfile / os.stat answer for it
    cache_file,      \* content of <id>.cache on durable storage
    subscriber,      \* the subscriber: "any" returns any list, "fixed" always the
                     \* same two paths, "single" always the same one path
    now,             \* time.time_ns(), in clock ticks
    \* ---- the FileMonitor object
    file_list,       \* self.file_list
    file_cache,      \* self.__file_cache
    action_queue,    \* self.__action_queue.queue
    new_files_search_frequency,
    file_update_scan_frequency,
    fresh_start,     \* the constructor's fresh_start argument
    \* ---- monitor()
    status,          \* "constructed", "monitoring", or the exception that ended monitor()
    lag_counter,
    \* ---- what the last step did (locals of the last call, kept for inspection)
    last_op,         \* what the last step ran: "init", "scan", "put", "get", "empty"
                     \* (get() on an empty queue), or "idle" for anything else
    next_action,     \* the action the last get() returned (NoAction for None)
    lag_logged,      \* the last iteration logged 'Lagging behind'
    put_times,       \* due-times handed to put() so far (stand-alone queue only)
    drained,         \* due-times get() returned since the last put()
    t_dispatch,      \* clock value at which the last iteration re-enqueued and dispatched
    overdue,         \* per iteration of the loop so far: the popped action was already due
    provided,        \* what file_monitor_get_files returned to the last step, if it was called
    pre_list,        \* file_list when the last scan started
    pre_cache,       \* file_cache when the last scan started
    changed_files,
    removed_files,
    cb_count,        \* calls of file_monitor_action_on_change in the last scan
    cb_change_list,  \* its change_list argument
    cb_file_list,    \* its file_list argument, as the callback left it
    first_scan,      \* the last scan was the first one since construction
    scan_no,         \* scans started since construction, capped at 1
    scans_in_row,    \* normally returned scans in a row with nothing in between, capped at 2
    seen_regular,    \* paths some scan saw as a regular file, not dropped as removed since
    observed,        \* paths loaded at construction or whose mtime a scan read, not dropped since
    \* ---- histories kept by the scenario specifications only
    reports,         \* one record per scan so far: what it met and what it did
    absent           \* paths that were not a regular file at some moment since the last scan

vars == <<disk, cache_file, subscriber, now, file_list, file_cache, action_queue,
          new_files_search_frequency, file_update_scan_frequency, fresh_start,
          status, lag_counter, last_op, next_action, lag_logged, t_dispatch,
          put_times, drained, pre_list, pre_cache,
          changed_files, removed_files, cb_count, cb_change_list, cb_file_list,
          first_scan, scan_no, scans_in_row, seen_regular, observed,
          overdue, provided, reports, absent>>

envVars   == <<disk, cache_file, subscriber, now>>
fileVars  == <<file_list, file_cache>>
cfgVars   == <<new_files_search_frequency, file_update_scan_frequency, fresh_start>>
scanVars  == <<pre_list, pre_cache, changed_files, removed_files,
               cb_count, cb_change_list, cb_file_list, first_scan>>
ghostVars == <<seen_regular, observed>>
queueHist == <<put_times, drained>>
loopVars  == <<action_queue, lag_counter, next_action, lag_logged, t_dispatch, overdue>>
traceVars == <<reports, absent>>

----------------------------------------------------------------------------
\* Bounds of the model.

\* Longest list the subscriber returns.
MaxLen == 2
\* Largest modification time a file takes.
MaxMTime == 2
\* Largest configured frequency (occurrences per hour).
MaxFreq == 2
\* The clock stops here.
MaxTime == 8
\* Longest time one dispatched action takes.
MaxDuration == 2
\* Most ticks that pass between the end of the wait and the re-enqueue.
MaxDelay == 1
\* Longest queue and latest due-time of the stand-alone queue specification.
MaxQueue == 3
MaxDue == 3
\* Most put() calls of the stand-alone queue specification.
MaxPuts == 4
\* Longest history of scans the scenario specifications keep.
MaxScans == 3
\* One hour in clock ticks.  The source's tick is 1 ns (60 * 60 * 1000000000
\* ticks an hour); the model's tick is coarser so that the period
\* NANO_SECS_IN_HOUR \div frequency stays a small number.
NANO_SECS_IN_HOUR == 4

Paths == {"a", "b"}

----------------------------------------------------------------------------
\* Values.

SEARCH_FOR_NEW_FILES == "SEARCH_FOR_NEW_FILES"
SCAN_FILES_FOR_CHANGES == "SCAN_FILES_FOR_CHANGES"
FileMonitorActionType == {SEARCH_FOR_NEW_FILES, SCAN_FILES_FOR_CHANGES}

FileMonitorAction(action_type, action_time) ==
    [action_type |-> action_type, action_time |-> action_time]

\* What get() returns on an empty queue (None).
NoAction == [action_type |-> "None", action_time |-> 0]

\* A path that is not a regular file, a regular file whose os.stat raises
\* OSError, and a regular file with modification time m.
NotAFile == [isfile |-> FALSE, stat_ok |-> FALSE, st_mtime_ns |-> 0]
StatError == [isfile |-> TRUE, stat_ok |-> FALSE, st_mtime_ns |-> 0]
RegularFile(m) == [isfile |-> TRUE, stat_ok |-> TRUE, st_mtime_ns |-> m]
DiskStates == {NotAFile, StatError} \cup {RegularFile(m) : m \in 1..MaxMTime}

\* A dict from paths to timestamps.
EmptyDict == [p \in {} |-> 0]
Dicts == UNION {[S -> 1..MaxMTime] : S \in SUBSET Paths}
DictSet(d, k, v) == [p \in (DOMAIN d) \cup {k} |-> IF p = k THEN v ELSE d[p]]
DictPop(d, k) == [p \in (DOMAIN d) \ {k} |-> d[p]]
OnlyEntry(p, m) == [q \in {p} |-> m]

Lists(n) == UNION {[1..k -> Paths] : k \in 0..n}

\* What file_monitor_get_files of the subscriber may return.
get_files(sub) ==
    IF sub = "any" THEN Lists(MaxLen)
    ELSE IF sub = "single" THEN {<<"a">>}
    ELSE {<<"a", "b">>}

\* The last step did not call file_monitor_get_files / did and got list.
NoCall == [called |-> FALSE, value |-> <<>>]
Returned(list) == [called |-> TRUE, value |-> list]

Range(s) == {s[i] : i \in 1..Len(s)}
Min(a, b) == IF a < b THEN a ELSE b

----------------------------------------------------------------------------
\* FileMonitorActionQueue.

\* list.sort() with FileMonitorAction.__lt__: a stable sort, ascending by
\* action_time.  InsertSorted puts a after every element that is not greater.
RECURSIVE InsertSorted(_, _)
InsertSorted(a, s) ==
    IF s = <<>> THEN <<a>>
    ELSE IF a.action_time < Head(s).action_time THEN <<a>> \o s
    ELSE <<Head(s)>> \o InsertSorted(a, Tail(s))

RECURSIVE sort(_)
sort(q) ==
    IF q = <<>> THEN <<>>
    ELSE InsertSorted(q[Len(q)], sort(SubSeq(q, 1, Len(q) - 1)))

\* put without the sort: the new action stays at the end.
put_without_sort(q, action) == Append(q, action)

\* put: append, then sort the whole list.
put(q, action) == sort(Append(q, action))

\* get: pop(0), or None when the queue is empty.
get(q) ==
    IF Len(q) > 0 THEN [result |-> Head(q), queue |-> Tail(q)]
    ELSE [result |-> NoAction, queue |-> q]

\* __queue_new_action whose second branch tests and uses the new-files
\* frequency (the first branch copied without changing the field).
queue_new_action_wrong_frequency(q, action_type, t, nf, sf) ==
    IF action_type = SEARCH_FOR_NEW_FILES /\ nf > 0
    THEN put(q, FileMonitorAction(SEARCH_FOR_NEW_FILES, t + NANO_SECS_IN_HOUR \div nf))
    ELSE IF action_type = SCAN_FILES_FOR_CHANGES /\ nf > 0
    THEN put(q, FileMonitorAction(SCAN_FILES_FOR_CHANGES, t + NANO_SECS_IN_HOUR \div nf))
    ELSE q

\* __queue_new_action whose first branch does not test the action type.
queue_new_action_any_type(q, action_type, t, nf, sf) ==
    IF nf > 0
    THEN put(q, FileMonitorAction(SEARCH_FOR_NEW_FILES, t + NANO_SECS_IN_HOUR \div nf))
    ELSE IF action_type = SCAN_FILES_FOR_CHANGES /\ sf > 0
    THEN put(q, FileMonitorAction(SCAN_FILES_FOR_CHANGES, t + NANO_SECS_IN_HOUR \div sf))
    ELSE q

\* __queue_new_action that adds a whole hour whatever the frequency is.
queue_new_action_full_hour(q, action_type, t, nf, sf) ==
    IF action_type = SEARCH_FOR_NEW_FILES /\ nf > 0
    THEN put(q, FileMonitorAction(SEARCH_FOR_NEW_FILES, t + NANO_SECS_IN_HOUR))
    ELSE IF action_type = SCAN_FILES_FOR_CHANGES /\ sf > 0
    THEN put(q, FileMonitorAction(SCAN_FILES_FOR_CHANGES, t + NANO_SECS_IN_HOUR))
    ELSE q

\* FileMonitor.__queue_new_action at clock value t, with the two configured
\* frequencies nf (new files search) and sf (file update scan).
queue_new_action(q, action_type, t, nf, sf) ==
    IF action_type = SEARCH_FOR_NEW_FILES /\ nf > 0
    THEN put(q, FileMonitorAction(SEARCH_FOR_NEW_FILES, t + NANO_SECS_IN_HOUR \div nf))
    ELSE IF action_type = SCAN_FILES_FOR_CHANGES /\ sf > 0
    THEN put(q, FileMonitorAction(SCAN_FILES_FOR_CHANGES, t + NANO_SECS_IN_HOUR \div sf))
    ELSE q

----------------------------------------------------------------------------
\* The persisted cache file.

\* Contents of the cache file: no file, text that is not JSON, JSON that is
\* not an object, and a JSON object given as its members in order.
NoFile == [kind |-> "missing", members |-> <<>>]
Malformed == [kind |-> "malformed", members |-> <<>>]
NotADict == [kind |-> "notdict", members |-> <<>>]

\* json.dumps(dict): one "key": value member per entry.
RECURSIVE dumps_members(_)
dumps_members(d) ==
    IF DOMAIN d = {} THEN <<>>
    ELSE LET k == CHOOSE p \in DOMAIN d : TRUE
         IN <<[key |-> k, value |-> d[k]]>> \o dumps_members(DictPop(d, k))

dumps(d) == [kind |-> "object", members |-> dumps_members(d)]

\* json.loads of an object: a dict with each member's key set in turn.
RECURSIVE loads_members(_, _)
loads_members(ms, d) ==
    IF ms = <<>> THEN d
    ELSE loads_members(Tail(ms), DictSet(d, Head(ms).key, Head(ms).value))

\* Lines 140-149 without the fresh_start test of line 141.
load_cache_always(file, fresh) ==
    IF file.kind = "object" THEN loads_members(file.members, EmptyDict)
    ELSE EmptyDict

\* The cache __init__ starts with (lines 140-149): empty unless the file
\* exists, fresh_start is false and the content is a JSON object.
load_cache(file, fresh) ==
    IF file.kind # "missing" /\ ~fresh
    THEN IF file.kind = "object" THEN loads_members(file.members, EmptyDict)
         ELSE EmptyDict
    ELSE EmptyDict

CacheFiles == {NoFile, Malformed, NotADict} \cup {dumps(d) : d \in Dicts}

----------------------------------------------------------------------------
\* FileMonitor.__scan_files_for_changes, the for loop (lines 189-202).

\* list.index(file): the first position holding file.
index(list, file) == CHOOSE i \in 1..Len(list) : list[i] = file /\ \A j \in 1..(i - 1) : list[j] # file

\* list.pop(i)
pop(list, i) == SubSeq(list, 1, i - 1) \o SubSeq(list, i + 1, Len(list))

\* Line 196 with a test that never finds the file unchanged.
is_unchanged_never(cache, file, last_modified) == FALSE

\* Line 196 without the comparison of the modification times.
is_unchanged_if_cached(cache, file, last_modified) ==
    file \in DOMAIN cache

\* Line 196: the file is cached with the modification time just read.
is_unchanged(cache, file, last_modified) ==
    file \in DOMAIN cache /\ cache[file] = last_modified

\* Lines 197-198 without the cache update.
record_change_without_cache(st, file, last_modified) ==
    [st EXCEPT !.changed_files = Append(@, file)]

\* Lines 197-198: the file is recorded as changed and its cache entry set.
record_change(st, file, last_modified) ==
    [st EXCEPT !.changed_files = Append(@, file),
               !.file_cache = DictSet(@, file, last_modified)]

\* Line 200: the path leaves the list (where list.index finds it).
drop_from_list(st, file) ==
    [st EXCEPT !.file_list = pop(@, index(@, file))]

\* Lines 201-202 for a cached path: its cache entry goes and it is recorded
\* as removed.
record_removal(st, file) ==
    [st EXCEPT !.file_cache = DictPop(@, file),
               !.removed_files = Append(@, file),
               !.seen = @ \ {file},
               !.obs = @ \ {file}]

\* The position the for loop takes next, after the body ran at position i.
next_position(i) == i + 1

\* The loop from iterator position i on.  A Python list iterator keeps a
\* position into the list it walks: each step takes list[i], if there is
\* one, and moves on to the next position, whatever the body did to the
\* list.  st.raised: dict.pop(file) raised KeyError (line 201, the path has
\* no cache entry) and ended the scan.
RECURSIVE scan_loop(_, _)
scan_loop(st, i) ==
    IF i > Len(st.file_list) THEN st
    ELSE LET file == st.file_list[i] IN
         IF disk[file].isfile
         THEN LET sawRegular == [st EXCEPT !.seen = @ \cup {file}] IN
              IF ~disk[file].stat_ok
              THEN scan_loop(sawRegular, next_position(i))
              ELSE LET last_modified == disk[file].st_mtime_ns
                       read == [sawRegular EXCEPT !.obs = @ \cup {file}]
                   IN IF ~is_unchanged(st.file_cache, file, last_modified)
                      THEN scan_loop(record_change(read, file, last_modified),
                                     next_position(i))
                      ELSE scan_loop(read, next_position(i))
         ELSE LET popped == drop_from_list(st, file) IN
              IF file \notin DOMAIN st.file_cache
              THEN [popped EXCEPT !.raised = TRUE]
              ELSE scan_loop(record_removal(popped, file), next_position(i))

----------------------------------------------------------------------------
\* FileMonitor.__scan_files_for_changes (lines 184-216) and __find_files.

\* The file_list argument of file_monitor_action_on_change (line 208): a copy
\* of self.file_list, so not the monitor's own list object.
file_list_argument(list) == [alias |-> FALSE, value |-> list]

\* What the subscriber's callback may do: return, change the list it was
\* handed (here: clear it) and return, or raise.
CallbackOutcomes == {"return", "mutate", "raise"}

NoScan ==
    /\ pre_list' = <<>>
    /\ pre_cache' = EmptyDict
    /\ changed_files' = <<>>
    /\ removed_files' = <<>>
    /\ cb_count' = 0
    /\ cb_change_list' = <<>>
    /\ cb_file_list' = <<>>
    /\ first_scan' = FALSE

\* Lines 204-213 without the write.
persist_never(file, cache, called, cb) == file

\* Lines 204-213: the content of the cache file after the scan.  The file
\* is rewritten with the whole cache when the callback was called and
\* returned; else it is left as it is.
persist(file, cache, called, cb) ==
    IF called /\ cb # "raise" THEN dumps(cache) ELSE file

\* One whole scan; cb is what the callback does if it is called ("return"
\* stands for a scan that does not call it).
scan_files_for_changes(cb) ==
    LET st == scan_loop([file_list |-> file_list, file_cache |-> file_cache,
                         changed_files |-> <<>>, removed_files |-> <<>>,
                         raised |-> FALSE, seen |-> seen_regular, obs |-> observed], 1)
        called == ~st.raised
                  /\ (Len(st.changed_files) > 0 \/ Len(st.removed_files) > 0)
        arg == file_list_argument(st.file_list)
        returned == ~st.raised /\ ~(called /\ cb = "raise")
    IN  /\ called \/ cb = "return"
        /\ pre_list' = file_list
        /\ pre_cache' = file_cache
        /\ changed_files' = st.changed_files
        /\ removed_files' = st.removed_files
        /\ file_cache' = st.file_cache
        /\ cb_count' = IF called THEN 1 ELSE 0
        /\ cb_change_list' = IF called THEN st.changed_files ELSE <<>>
        /\ cb_file_list' = IF called THEN arg.value ELSE <<>>
        /\ file_list' = IF called /\ cb = "mutate" /\ arg.alias THEN <<>> ELSE st.file_list
        /\ cache_file' = persist(cache_file, st.file_cache, called, cb)
        /\ status' = IF st.raised THEN "KeyError"
                     ELSE IF called /\ cb = "raise" THEN "CallbackError"
                     ELSE status
        /\ first_scan' = (scan_no = 0)
        /\ scan_no' = Min(scan_no + 1, 1)
        /\ scans_in_row' = IF returned THEN Min(scans_in_row + 1, 2) ELSE 0
        /\ seen_regular' = st.seen
        /\ observed' = st.obs
        /\ provided' = NoCall
        /\ last_op' = "scan"

\* Line 220 with the returned list added to the one before.
replace_list_appended(old, new) == old \o new

\* Line 220: the monitor's list becomes the list the subscriber returned.
replace_list(old, new) == new

\* __find_files: the list is whatever the subscriber returns.
find_files ==
    /\ \E list \in get_files(subscriber) :
         /\ provided' = Returned(list)
         /\ file_list' = replace_list(file_list, list)
    /\ last_op' = "idle"
    /\ scans_in_row' = 0
    /\ NoScan
    /\ UNCHANGED <<file_cache, cache_file, status, scan_no, ghostVars>>

----------------------------------------------------------------------------
\* Construction (FileMonitor.__init__, lines 127-155) at clock value t.

Freqs == 0..MaxFreq

\* The object __init__ leaves behind, given the cache file, the arguments
\* and the list the subscriber returned to __find_files.
new_monitor(file, fresh, nf, sf, t, list) ==
    [file_cache |-> load_cache(file, fresh),
     file_list |-> list,
     action_queue |->
         queue_new_action(
           queue_new_action(<<>>, SCAN_FILES_FOR_CHANGES, t, nf, sf),
           SEARCH_FOR_NEW_FILES, t, nf, sf)]

constructed(t, fresh, nf, sf) ==
    \E list \in get_files(subscriber) :
      LET m == new_monitor(cache_file, fresh, nf, sf, t, list) IN
      /\ new_files_search_frequency' = nf
      /\ file_update_scan_frequency' = sf
      /\ fresh_start' = fresh
      /\ file_cache' = m.file_cache
      /\ file_list' = m.file_list
      /\ action_queue' = m.action_queue
      /\ status' = "constructed"
      /\ lag_counter' = 0
      /\ last_op' = "init"
      /\ next_action' = NoAction
      /\ lag_logged' = FALSE
      /\ t_dispatch' = t
      /\ overdue' = <<>>
      /\ provided' = Returned(list)
      /\ scan_no' = 0
      /\ scans_in_row' = 0
      \* a fresh start forgets what earlier runs saw; a restart over the
      \* persisted cache continues them
      /\ seen_regular' = IF fresh THEN {} ELSE seen_regular
      /\ observed' = DOMAIN m.file_cache
      /\ NoScan

\* A new monitor for the same subscriber (a restart of the process) after
\* monitor() ran, with the configuration of the one before and any
\* fresh_start.
Construct ==
    /\ status # "constructed"
    /\ \E fresh \in BOOLEAN :
         constructed(now, fresh, new_files_search_frequency,
                     file_update_scan_frequency)
    /\ UNCHANGED <<envVars, queueHist, traceVars>>

\* monitor() is called (lines 157-162).  An exception that leaves monitor()
\* is final: nothing in the source catches it.
Monitor ==
    /\ status = "constructed"
    /\ status' = "monitoring"
    /\ lag_counter' = 0
    /\ last_op' = "idle"
    /\ scans_in_row' = 0
    /\ provided' = NoCall
    /\ NoScan
    /\ UNCHANGED <<envVars, fileVars, cfgVars, action_queue, next_action, lag_logged,
                   t_dispatch, overdue, queueHist, scan_no, ghostVars, traceVars>>

\* The environment: one path is created, deleted, touched or starts (stops)
\* failing os.stat.
fs_change(p, s) ==
    /\ s # disk[p]
    /\ disk' = [disk EXCEPT ![p] = s]
    /\ last_op' = "idle"
    /\ scans_in_row' = 0
    /\ provided' = NoCall
    /\ NoScan
    /\ UNCHANGED <<cache_file, subscriber, now, fileVars, cfgVars, status, loopVars,
                   queueHist, scan_no, ghostVars>>

FsChange ==
    /\ \E p \in Paths, s \in DiskStates : fs_change(p, s)
    /\ UNCHANGED traceVars

----------------------------------------------------------------------------
\* The state after the first construction.

InitMonitor(fresh, nf, sf) ==
    \E list \in get_files(subscriber) :
      LET m == new_monitor(cache_file, fresh, nf, sf, now, list) IN
      /\ new_files_search_frequency = nf
      /\ file_update_scan_frequency = sf
      /\ fresh_start = fresh
      /\ file_cache = m.file_cache
      /\ file_list = m.file_list
      /\ action_queue = m.action_queue
      /\ status = "constructed"
      /\ lag_counter = 0
      /\ last_op = "init"
      /\ next_action = NoAction
      /\ lag_logged = FALSE
      /\ t_dispatch = now
      /\ overdue = <<>>
      /\ provided = Returned(list)
      /\ reports = <<>>
      /\ absent = {}
      /\ put_times = <<>>
      /\ drained = <<>>
      /\ pre_list = <<>>
      /\ pre_cache = EmptyDict
      /\ changed_files = <<>>
      /\ removed_files = <<>>
      /\ cb_count = 0
      /\ cb_change_list = <<>>
      /\ cb_file_list = <<>>
      /\ first_scan = FALSE
      /\ scan_no = 0
      /\ scans_in_row = 0
      \* entries of a cache file that is loaded were put there by earlier runs
      /\ seen_regular = DOMAIN m.file_cache
      /\ observed = DOMAIN m.file_cache

----------------------------------------------------------------------------
\* Spec: the monitor's dispatches with the clock left out.  The loop of
\* monitor() dispatches scans and re-enumerations in an order that the two
\* periods and the durations decide; here every order is allowed.  The
\* first construction meets any cache file, any disk and any list, so the
\* state a restart (Construct) leaves is among the initial states.

Init ==
    /\ disk \in [Paths -> DiskStates]
    /\ cache_file \in CacheFiles
    /\ subscriber = "any"
    /\ now = 0
    /\ \E fresh \in BOOLEAN : InitMonitor(fresh, 1, MaxFreq)

\* monitor() dispatches SCAN_FILES_FOR_CHANGES (lines 179-180).
DispatchScan ==
    /\ status = "monitoring"
    /\ file_update_scan_frequency > 0
    /\ \E cb \in CallbackOutcomes : scan_files_for_changes(cb)
    /\ UNCHANGED <<disk, subscriber, now, cfgVars, loopVars, queueHist, traceVars>>

\* monitor() dispatches SEARCH_FOR_NEW_FILES (lines 181-182).
DispatchFind ==
    /\ status = "monitoring"
    /\ new_files_search_frequency > 0
    /\ find_files
    /\ UNCHANGED <<disk, subscriber, now, cfgVars, loopVars, queueHist, traceVars>>

Next ==
    \/ Monitor
    \/ DispatchScan
    \/ DispatchFind
    \/ FsChange

Spec == Init /\ [][Next]_vars

----------------------------------------------------------------------------
\* RestartSpec: runs of the monitor one after the other over the same cache
\* file.  A run is a construction, monitor() and its scans; it ends when the
\* process does, at any moment, and the next construction (with any
\* fresh_start and whatever list the subscriber returns then) starts the
\* next run.

RestartNext ==
    \/ Monitor
    \/ DispatchScan
    \/ Construct

RestartSpec == Init /\ [][RestartNext]_vars

----------------------------------------------------------------------------
\* LifeSpec: a subscriber that always returns the one path "a", with a
\* record of what each scan met on disk and what it did.

LifeScan ==
    /\ status = "monitoring"
    /\ file_update_scan_frequency > 0
    /\ Len(reports) < MaxScans
    /\ \E cb \in CallbackOutcomes : scan_files_for_changes(cb)
    /\ reports' = Append(reports, [met |-> disk,
                                   pre_cache |-> file_cache,
                                   changed |-> changed_files',
                                   removed |-> removed_files',
                                   file_list |-> file_list',
                                   file_cache |-> file_cache',
                                   calls |-> cb_count'])
    /\ UNCHANGED <<disk, subscriber, now, cfgVars, loopVars, queueHist, absent>>

\* The environment creates, deletes or touches "a", the one path the
\* monitor ever looks at.
LifeFsChange ==
    /\ \E s \in DiskStates : fs_change("a", s)
    /\ UNCHANGED traceVars

LifeInit ==
    /\ disk \in {[p \in Paths |-> IF p = "a" THEN s ELSE NotAFile] : s \in DiskStates}
    /\ cache_file \in {NoFile} \cup {dumps(OnlyEntry("a", m)) : m \in 1..MaxMTime}
    /\ subscriber = "single"
    /\ now = 0
    /\ \E fresh \in BOOLEAN : InitMonitor(fresh, 1, MaxFreq)

LifeNext ==
    \/ Monitor
    \/ LifeScan
    \/ DispatchFind
    \/ LifeFsChange

LifeSpec == LifeInit /\ [][LifeNext]_vars

----------------------------------------------------------------------------
\* FlickerSpec: a subscriber that always returns the two paths, with a
\* record of the paths that were not a regular file at some moment since
\* the scan before; each scan leaves one report with that record.

FlickerScan ==
    /\ status = "monitoring"
    /\ file_update_scan_frequency > 0
    /\ \E cb \in CallbackOutcomes : scan_files_for_changes(cb)
    /\ reports' = <<[absent |-> absent]>>
    /\ absent' = {}
    /\ UNCHANGED <<disk, subscriber, now, cfgVars, loopVars, queueHist>>

\* The environment deletes, creates or touches a path.
FlickerFsChange ==
    /\ \E p \in Paths, s \in DiskStates :
         /\ fs_change(p, s)
         /\ absent' = IF s.isfile THEN absent ELSE absent \cup {p}
    /\ reports' = <<>>

FlickerInit ==
    /\ disk \in [Paths -> DiskStates]
    /\ cache_file \in CacheFiles
    /\ subscriber = "fixed"
    /\ now = 0
    /\ \E fresh \in BOOLEAN : InitMonitor(fresh, 1, MaxFreq)

FlickerNext ==
    \/ Monitor
    \/ FlickerScan
    \/ DispatchFind
    \/ FlickerFsChange

FlickerSpec == FlickerInit /\ [][FlickerNext]_vars

----------------------------------------------------------------------------
\* SchedSpec: the loop of monitor() (lines 164-182) with the clock.

\* Lines 170-175 with a counter that is never reset.
next_lag_counter_never_reset(lag, wait_time) == lag + 1

\* Lines 170-175: the lag counter after an iteration that found wait_time.
next_lag_counter(lag, wait_time) == IF wait_time > 0 THEN 0 ELSE lag + 1

\* Lines 166-178 on queue q with lag counter lag: the action is popped at
\* clock value t0 and its successor enqueued at clock value t1.
loop_body(q, lag, t0, t1, nf, sf) ==
    LET got == get(q)
        wait_time == got.result.action_time - t0
        counter == next_lag_counter(lag, wait_time)
    IN  [next_action |-> got.result,
         wait_time |-> wait_time,
         lag_counter |-> counter,
         lag_logged |-> (~(wait_time > 0) /\ counter > 1),
         action_queue |-> queue_new_action(got.queue, got.result.action_type, t1, nf, sf)]

\* Lines 170-178: the clock value t1 at which the successor is enqueued.
\* time.sleep(wait_time) returns at the due-time or later; without a sleep
\* the clock is where it was, or up to MaxDelay ticks further.
sleep_returns(t0, wait_time, t1) ==
    /\ t1 >= t0
    /\ wait_time > 0 => t1 >= t0 + wait_time
    /\ t1 <= (IF wait_time > 0 THEN t0 + wait_time ELSE t0) + MaxDelay

\* One iteration that pops an action of the given kind: the wait, the lag
\* counter, the re-enqueue at clock value t1 and the clock after the
\* dispatched work, which takes d ticks.
iteration(kind, t1, d) ==
    LET body == loop_body(action_queue, lag_counter, now, t1,
                          new_files_search_frequency, file_update_scan_frequency)
    IN  /\ status = "monitoring"
        /\ body.next_action.action_type = kind
        /\ sleep_returns(now, body.wait_time, t1)
        /\ next_action' = body.next_action
        /\ lag_counter' = body.lag_counter
        /\ lag_logged' = body.lag_logged
        /\ t_dispatch' = t1
        /\ action_queue' = body.action_queue
        /\ overdue' = Append(overdue, ~(body.wait_time > 0))
        /\ now' = t1 + d
        /\ now' <= MaxTime

Times == 0..MaxTime
Durations == 0..MaxDuration

IterateScan ==
    /\ \E t1 \in Times, d \in Durations : iteration(SCAN_FILES_FOR_CHANGES, t1, d)
    /\ \E cb \in CallbackOutcomes : scan_files_for_changes(cb)
    /\ UNCHANGED <<disk, subscriber, cfgVars, queueHist, traceVars>>

IterateFind ==
    /\ \E t1 \in Times, d \in Durations : iteration(SEARCH_FOR_NEW_FILES, t1, d)
    /\ find_files
    /\ UNCHANGED <<disk, subscriber, cfgVars, queueHist, traceVars>>

\* get() returned None: next_action.action_time raises AttributeError.
IterateEmpty ==
    /\ status = "monitoring"
    /\ get(action_queue).result = NoAction
    /\ next_action' = NoAction
    /\ status' = "AttributeError"
    /\ last_op' = "empty"
    /\ scans_in_row' = 0
    /\ provided' = NoCall
    /\ NoScan
    /\ UNCHANGED <<envVars, fileVars, cfgVars, action_queue, lag_counter, lag_logged,
                   t_dispatch, overdue, queueHist, scan_no, ghostVars, traceVars>>

SchedInit ==
    /\ disk \in [Paths -> {NotAFile, RegularFile(1)}]
    /\ cache_file = NoFile
    /\ subscriber = "fixed"
    /\ now = 0
    /\ \E nf \in Freqs, sf \in Freqs : InitMonitor(FALSE, nf, sf)

SchedNext ==
    \/ Monitor
    \/ IterateScan
    \/ IterateFind
    \/ IterateEmpty

SchedSpec == SchedInit /\ [][SchedNext]_vars

----------------------------------------------------------------------------
\* LiveSpec: the loop of monitor() without an end of time.  Due-times are
\* nanoseconds since an arbitrary epoch, so after every iteration the epoch
\* is moved to the present: the clock reads 0 again and every due-time in
\* the queue is less by the time that passed.  A due-time further in the
\* past than MaxLate is kept as MaxLate ago: the loop only asks whether an
\* action is due and which of two is earlier, and the successor just
\* enqueued is never that late.  The callback returns and the subscriber
\* answers; the loop, once started, keeps running (weak fairness of its
\* steps).

MaxLate == MaxDuration + MaxDelay

Max(a, b) == IF a > b THEN a ELSE b

rebase(q, by) ==
    [i \in 1..Len(q) |->
       FileMonitorAction(q[i].action_type, Max(q[i].action_time - by, 0 - MaxLate))]

live_iteration(kind, t1, d) ==
    LET body == loop_body(action_queue, lag_counter, now, t1,
                          new_files_search_frequency, file_update_scan_frequency)
    IN  /\ status = "monitoring"
        /\ body.next_action.action_type = kind
        /\ sleep_returns(now, body.wait_time, t1)
        /\ next_action' = body.next_action
        \* the counter is only ever compared with 1
        /\ lag_counter' = Min(body.lag_counter, 2)
        /\ lag_logged' = body.lag_logged
        /\ t_dispatch' = t1
        /\ action_queue' = rebase(body.action_queue, t1 + d)
        /\ now' = now
        /\ UNCHANGED overdue

LiveTimes == 0..(NANO_SECS_IN_HOUR + MaxDelay)

LiveIterateScan ==
    /\ \E t1 \in LiveTimes, d \in Durations : live_iteration(SCAN_FILES_FOR_CHANGES, t1, d)
    /\ scan_files_for_changes("return")
    /\ UNCHANGED <<disk, subscriber, cfgVars, queueHist, traceVars>>

LiveIterateFind ==
    /\ \E t1 \in LiveTimes, d \in Durations : live_iteration(SEARCH_FOR_NEW_FILES, t1, d)
    /\ find_files
    /\ UNCHANGED <<disk, subscriber, cfgVars, queueHist, traceVars>>

LiveInit ==
    /\ disk \in [Paths -> {NotAFile, RegularFile(1)}]
    /\ cache_file = NoFile
    /\ subscriber = "fixed"
    /\ now = 0
    /\ \E nf \in 1..MaxFreq, sf \in 1..MaxFreq : InitMonitor(FALSE, nf, sf)

LiveNext ==
    \/ Monitor
    \/ LiveIterateScan
    \/ LiveIterateFind

LiveSpec ==
    /\ LiveInit
    /\ [][LiveNext]_vars
    /\ WF_vars(Monitor)
    /\ WF_vars(LiveIterateScan \/ LiveIterateFind)

----------------------------------------------------------------------------
\* QueueSpec: a FileMonitorActionQueue on its own, under any puts and gets.

QueueActions ==
    {FileMonitorAction(k, t) : k \in FileMonitorActionType, t \in 1..MaxDue}

QPut ==
    /\ Len(action_queue) < MaxQueue
    /\ Len(put_times) < MaxPuts
    /\ \E a \in QueueActions :
         /\ action_queue' = put(action_queue, a)
         /\ put_times' = Append(put_times, a.action_time)
    /\ drained' = <<>>
    /\ next_action' = NoAction
    /\ last_op' = "put"
    /\ UNCHANGED <<envVars, fileVars, cfgVars, status, lag_counter, lag_logged,
                   t_dispatch, overdue, provided, scanVars, scan_no, scans_in_row,
                   ghostVars, traceVars>>

QGet ==
    LET got == get(action_queue) IN
    /\ action_queue' = got.queue
    /\ next_action' = got.result
    /\ last_op' = IF got.result = NoAction THEN "empty" ELSE "get"
    /\ drained' = IF got.result = NoAction THEN drained
                  ELSE Append(drained, got.result.action_time)
    /\ UNCHANGED <<envVars, fileVars, cfgVars, status, lag_counter, lag_logged,
                   t_dispatch, overdue, provided, put_times, scanVars, scan_no,
                   scans_in_row, ghostVars, traceVars>>

QueueInit ==
    /\ action_queue = <<>>
    /\ put_times = <<>>
    /\ drained = <<>>
    /\ next_action = NoAction
    /\ last_op = "init"
    /\ disk = [p \in Paths |-> NotAFile]
    /\ cache_file = NoFile
    /\ subscriber = "fixed"
    /\ now = 0
    /\ file_list = <<>>
    /\ file_cache = EmptyDict
    /\ new_files_search_frequency = 0
    /\ file_update_scan_frequency = 0
    /\ fresh_start = FALSE
    /\ status = "constructed"
    /\ lag_counter = 0
    /\ lag_logged = FALSE
    /\ t_dispatch = 0
    /\ overdue = <<>>
    /\ provided = NoCall
    /\ reports = <<>>
    /\ absent = {}
    /\ pre_list = <<>>
    /\ pre_cache = EmptyDict
    /\ changed_files = <<>>
    /\ removed_files = <<>>
    /\ cb_count = 0
    /\ cb_change_list = <<>>
    /\ cb_file_list = <<>>
    /\ first_scan = FALSE
    /\ scan_no = 0
    /\ scans_in_row = 0
    /\ seen_regular = {}
    /\ observed = {}

QueueNext ==
    \/ QPut
    \/ QGet

QueueSpec == QueueInit /\ [][QueueNext]_vars

----------------------------------------------------------------------------
\* Properties of the change scan (Spec).

\* The last step was a scan and it returned (no exception left it).
ScanReturned == last_op = "scan" /\ status = "monitoring"

IsRegular(p) == disk[p].isfile /\ disk[p].stat_ok

NoDuplicates(list) == \A i, j \in 1..Len(list) : list[i] = list[j] => i = j

\* C1: every path that was in the list and in the cache when a scan started
\* and is not a regular file is, when the scan has finished, in the removed
\* set, out of the file list and out of the cache (stated for lists that
\* name no path twice).
C1_RemovalDetection ==
    (ScanReturned /\ NoDuplicates(pre_list)) =>
      \A p \in Range(pre_list) :
        (p \in DOMAIN pre_cache /\ ~disk[p].isfile) =>
          /\ p \in Range(removed_files)
          /\ p \notin Range(file_list)
          /\ p \notin DOMAIN file_cache

\* C2: every path that was in the list when a scan started, is a regular
\* file and is not cached with its current modification time is recorded as
\* changed by that scan and cached with the current modification time
\* (stated for lists that name no path twice).
C2_ChangeDetection ==
    (ScanReturned /\ NoDuplicates(pre_list)) =>
      \A p \in Range(pre_list) :
        (IsRegular(p) /\ ~is_unchanged(pre_cache, p, disk[p].st_mtime_ns)) =>
          /\ p \in Range(changed_files)
          /\ p \in DOMAIN file_cache
          /\ file_cache[p] = disk[p].st_mtime_ns

\* C3: the second of two scans in a row, with no file system change and no
\* re-enumeration between them, records no changed and no removed file and
\* does not call the callback.
C3_IdempotentScan ==
    scans_in_row = 2 =>
      /\ changed_files = <<>>
      /\ removed_files = <<>>
      /\ cb_count = 0

\* C4: a scan that meets a path that is not a regular file and has no cache
\* entry (here: at the head of the list, which every scan visits) records it
\* as removed, drops it from the list and goes on without raising.
C4_MissingUncached ==
    (last_op = "scan" /\ Len(pre_list) > 0
       /\ ~disk[pre_list[1]].isfile /\ pre_list[1] \notin DOMAIN pre_cache) =>
      /\ status # "KeyError"
      /\ pre_list[1] \in Range(removed_files)
      /\ Len(file_list) < Len(pre_list)
      /\ pre_list[1] \notin DOMAIN file_cache

\* C5: a monitor constructed with fresh_start starts with an empty cache,
\* and its first scan completes and reports every path of the list that is
\* a regular file as changed.
C5_FreshStart ==
    /\ (last_op = "init" /\ fresh_start) => file_cache = EmptyDict
    /\ (last_op = "scan" /\ first_scan /\ fresh_start) =>
         /\ status # "KeyError"
         /\ \A p \in Range(pre_list) : IsRegular(p) => p \in Range(changed_files)

C10_CallbackCondition ==
    last_op = "scan" =>
      /\ cb_count = (IF Len(changed_files) + Len(removed_files) > 0 THEN 1 ELSE 0)
      /\ cb_count = 1 =>
           /\ cb_change_list = changed_files
           /\ cb_file_list = file_list

----------------------------------------------------------------------------
\* Properties of the scheduler loop (SchedSpec) and of the queue (QueueSpec).

Pending(kind) ==
    Cardinality({i \in 1..Len(action_queue) : action_queue[i].action_type = kind})

Period(frequency) == NANO_SECS_IN_HOUR \div frequency

Ordered(q) == \A i \in 1..(Len(q) - 1) : q[i].action_time <= q[i + 1].action_time
Ascending(ts) == \A i \in 1..(Len(ts) - 1) : ts[i] <= ts[i + 1]

\* C8: after every put and get the queue is ascending by due-time; a get on
\* a queue that holds something removes one action and returns it, and its
\* due-time is at most that of every action left; a get on an empty queue
\* returns None and leaves the queue empty; so gets in a row return
\* ascending due-times.
C8_QueueOrdering ==
    [][/\ Ordered(action_queue')
       /\ Ascending(drained')
       /\ last_op' = "get" =>
            /\ \E i \in 1..Len(action_queue) :
                 /\ next_action' = action_queue[i]
                 /\ action_queue' = pop(action_queue, i)
            /\ \A i \in 1..Len(action_queue') :
                 next_action'.action_time <= action_queue'[i].action_time
       /\ last_op' = "empty" =>
            /\ action_queue = <<>>
            /\ action_queue' = <<>>
            /\ next_action' = NoAction]_vars

\* Three actions put latest-first, earliest, middle came out earliest first.
C8_Witness ==
    /\ put_times = <<MaxDue, MaxDue - 2, MaxDue - 1>>
    /\ drained = <<MaxDue - 2, MaxDue - 1, MaxDue>>

\* C9: the queue holds exactly one action of each kind whose frequency is
\* greater than zero and none of a kind whose frequency is zero: after
\* construction and between any two iterations of the loop.
C9_OnePendingPerKind ==
    /\ Pending(SEARCH_FOR_NEW_FILES) = (IF new_files_search_frequency > 0 THEN 1 ELSE 0)
    /\ Pending(SCAN_FILES_FOR_CHANGES) = (IF file_update_scan_frequency > 0 THEN 1 ELSE 0)

\* Both kinds enabled, and the loop has popped an action it enqueued itself
\* and put its successor beside the pending action of the other kind.
C9_Witness ==
    /\ new_files_search_frequency > 0
    /\ file_update_scan_frequency > 0
    /\ next_action.action_type = SCAN_FILES_FOR_CHANGES
    /\ next_action.action_time > Period(file_update_scan_frequency)
    /\ Len(action_queue) = 2

----------------------------------------------------------------------------
\* Properties of the persisted cache (Spec, RestartSpec).

\* The mapping a reader of the cache file gets from a JSON object.
Stored(file) == loads_members(file.members, EmptyDict)

\* C11: after a scan that returned normally and recorded at least one
\* changed or removed file, the cache file holds a mapping equal to the
\* in-memory cache; a scan that returned normally and recorded none left
\* both the in-memory cache and the cache file as they were.
C11_PersistFollowsMutation ==
    [][(last_op' = "scan" /\ status' = "monitoring") =>
         IF Len(changed_files') + Len(removed_files') > 0
         THEN /\ cache_file'.kind = "object"
              /\ Stored(cache_file') = file_cache'
         ELSE /\ file_cache' = file_cache
              /\ cache_file' = cache_file]_vars

\* A scan returned that recorded a changed and a removed file, changed a
\* non-empty cache and left it in the cache file.
C11_Witness ==
    /\ ScanReturned
    /\ Len(changed_files) > 0
    /\ Len(removed_files) > 0
    /\ pre_cache # EmptyDict
    /\ file_cache # pre_cache
    /\ file_cache # EmptyDict
    /\ cache_file = dumps(file_cache)

----------------------------------------------------------------------------
\* Properties of single paths in a scan (Spec).

SameEntry(p) ==
    /\ (p \in DOMAIN pre_cache) = (p \in DOMAIN file_cache)
    /\ p \in DOMAIN pre_cache => file_cache[p] = pre_cache[p]

\* C12: a scan that meets a regular file whose os.stat raises OSError (here:
\* at the head of the list, which every scan visits) leaves the path in the
\* list and its cache entry, present or absent, as it was, records it as
\* neither changed nor removed, and goes through the rest of the list and
\* finishes without raising.
C12_StatErrorSkipped ==
    (last_op = "scan" /\ Len(pre_list) > 0 /\ disk[pre_list[1]] = StatError) =>
      /\ pre_list[1] \in Range(file_list)
      /\ SameEntry(pre_list[1])
      /\ pre_list[1] \notin Range(changed_files)
      /\ pre_list[1] \notin Range(removed_files)
      /\ status # "KeyError"

----------------------------------------------------------------------------
\* Properties of construction and restart (RestartSpec).

\* C13: every construction completes, whatever the cache file holds (no
\* file, a JSON object, text that is not JSON, JSON that is not an object)
\* and whatever fresh_start is, and the cache it starts with is the mapping
\* stored in the file if the file holds a JSON object and fresh_start is
\* false, and empty in every other case.
C13_CacheLoad ==
    last_op = "init" =>
      /\ status = "constructed"
      /\ IF cache_file.kind = "object" /\ ~fresh_start
         THEN \E d \in Dicts : cache_file = dumps(d) /\ file_cache = d
         ELSE file_cache = EmptyDict

\* A construction without fresh_start over a cache file that holds JSON
\* other than an object has completed, with an empty cache.
C13_Witness ==
    /\ last_op = "init"
    /\ status = "constructed"
    /\ ~fresh_start
    /\ cache_file = NotADict
    /\ file_cache = EmptyDict

\* C14: a monitor constructed without fresh_start, after a run that ended
\* with a scan that returned normally, starts with the in-memory cache that
\* run held at the end of that scan.
C14_RestartKeepsCache ==
    [][(ScanReturned /\ last_op' = "init" /\ ~fresh_start') =>
         file_cache' = file_cache]_vars

----------------------------------------------------------------------------
\* The life cycle of one file (LifeSpec).

IsFileWith(state, m) == state.isfile /\ state.stat_ok /\ state.st_mtime_ns = m

\* The first scan started with an empty cache and met P with time m1.
Created(P, m1) ==
    /\ Len(reports) >= 1
    /\ reports[1].pre_cache = EmptyDict
    /\ IsFileWith(reports[1].met[P], m1)

\* ... and the second scan met P with another time m2.
Touched(P, m1, m2) ==
    /\ Created(P, m1)
    /\ Len(reports) >= 2
    /\ m2 # m1
    /\ IsFileWith(reports[2].met[P], m2)

\* ... and the third scan met no file P.
Deleted(P, m1, m2) ==
    /\ Touched(P, m1, m2)
    /\ Len(reports) >= 3
    /\ ~reports[3].met[P].isfile

\* C15: with a subscriber that always returns the one path P and an empty
\* cache at the start, the first scan, meeting P as a file, reports P as
\* changed and caches its modification time; the second scan, meeting P
\* with another modification time, reports P as changed and caches the new
\* time; the third scan, meeting no file P, reports P as removed and leaves
\* the list and the cache empty; each of the three calls the callback once.
C15_LifeCycle ==
    \A m1, m2 \in 1..MaxMTime :
      LET P == "a" IN
      /\ Created(P, m1) =>
           /\ reports[1].changed = <<P>>
           /\ reports[1].removed = <<>>
           /\ reports[1].file_cache = OnlyEntry(P, m1)
           /\ reports[1].calls = 1
      /\ Touched(P, m1, m2) =>
           /\ reports[2].changed = <<P>>
           /\ reports[2].removed = <<>>
           /\ reports[2].file_cache = OnlyEntry(P, m2)
           /\ reports[2].calls = 1
      /\ Deleted(P, m1, m2) =>
           /\ reports[3].changed = <<>>
           /\ reports[3].removed = <<P>>
           /\ reports[3].file_list = <<>>
           /\ reports[3].file_cache = EmptyDict
           /\ reports[3].calls = 1

\* The three scans of the life cycle have run, and the monitor runs on.
C15_Witness ==
    /\ \E m1, m2 \in 1..MaxMTime : Deleted("a", m1, m2)
    /\ reports[3].removed = <<"a">>
    /\ file_list = <<>>
    /\ file_cache = EmptyDict
    /\ status = "monitoring"

----------------------------------------------------------------------------
\* Lag detection and the reschedule step (SchedSpec).

\* How many of the most recent iterations, without a gap, popped an action
\* that was already due.
TrailingOverdue(h) ==
    Cardinality({i \in 1..Len(h) : \A j \in i..Len(h) : h[j]})

\* C16: the lag counter is the number of most recent iterations in a row
\* that popped an action already due (zero after an iteration that slept);
\* the last iteration logged 'Lagging behind' exactly if it and the one
\* before it both popped an action already due; and an iteration that
\* logged it enqueued the successor and dispatched the action all the same.
C16_LagDetection ==
    /\ lag_counter = TrailingOverdue(overdue)
    /\ lag_logged = (/\ Len(overdue) >= 2
                     /\ overdue[Len(overdue)]
                     /\ overdue[Len(overdue) - 1])
    /\ lag_logged =>
         /\ next_action.action_type = SCAN_FILES_FOR_CHANGES => last_op = "scan"
         /\ next_action.action_type = SEARCH_FOR_NEW_FILES => provided.called
         /\ Pending(next_action.action_type) = 1
         /\ t_dispatch <= now

\* The loop lagged for two iterations and logged it, slept in a later
\* iteration, and has now popped an action already due again.
C16_Witness ==
    /\ \E i \in 2..(Len(overdue) - 2) :
         overdue[i - 1] /\ overdue[i] /\ ~overdue[i + 1]
    /\ lag_counter = 1
    /\ ~lag_logged

Frequency(kind) ==
    IF kind = SEARCH_FOR_NEW_FILES THEN new_files_search_frequency
    ELSE file_update_scan_frequency

\* C17: every iteration of the loop pops the head of the queue, an action
\* of a kind with frequency f > 0, and puts exactly one action of that kind
\* back, due at the clock value of the re-enqueue plus
\* NANO_SECS_IN_HOUR \div f; the re-enqueue happens after the wait, not
\* before the popped action's due-time, and before the dispatched work
\* (also work that raises) ends; the successor is due later than the
\* popped action was.
C17_RescheduleStep ==
    [][(status = "monitoring" /\ action_queue # <<>>) =>
         LET popped == next_action'
             kind == popped.action_type
             f == Frequency(kind)
             successor == FileMonitorAction(kind, t_dispatch' + Period(f))
         IN  /\ popped = Head(action_queue)
             /\ f > 0
             /\ \E i \in 1..Len(action_queue') :
                  /\ action_queue'[i] = successor
                  /\ pop(action_queue', i) = Tail(action_queue)
             /\ Cardinality({i \in 1..Len(action_queue') :
                               action_queue'[i].action_type = kind}) = 1
             /\ now <= t_dispatch'
             /\ popped.action_time <= t_dispatch'
             /\ t_dispatch' <= now'
             /\ popped.action_time < successor.action_time]_vars

\* With both kinds enabled, a search action that the loop enqueued itself
\* was popped late, and its successor is in the queue beside the pending
\* scan action.
C17_Witness ==
    /\ new_files_search_frequency > 0
    /\ file_update_scan_frequency > 0
    /\ next_action.action_type = SEARCH_FOR_NEW_FILES
    /\ next_action.action_time > Period(new_files_search_frequency)
    /\ t_dispatch > next_action.action_time
    /\ \E i \in 1..Len(action_queue) :
         action_queue[i] = FileMonitorAction(SEARCH_FOR_NEW_FILES,
                             t_dispatch + Period(new_files_search_frequency))
    /\ Pending(SCAN_FILES_FOR_CHANGES) = 1

----------------------------------------------------------------------------
\* Re-enumeration and reappearing files (Spec, FlickerSpec).

\* C18: a re-enumeration leaves the monitor's list equal to the sequence
\* the subscriber returned, duplicates and all, and leaves the in-memory
\* cache, the cache file and the action queue as they were, without a call
\* of the callback; so a path that is no longer in the list keeps its cache
\* entry.
C18_ReenumerationFrame ==
    [][(provided'.called /\ last_op' # "init") =>
         /\ file_list' = provided'.value
         /\ file_cache' = file_cache
         /\ cache_file' = cache_file
         /\ action_queue' = action_queue
         /\ cb_count' = 0]_vars

\* A re-enumeration of a running monitor returned a list that names one
\* path twice and no longer names a path that a scan cached before.
C18_Witness ==
    /\ provided.called
    /\ last_op = "idle"
    /\ status = "monitoring"
    /\ file_list = <<"b", "b">>
    /\ scan_no > 0
    /\ "a" \in DOMAIN file_cache
    /\ "a" \in observed
    /\ cache_file = dumps(file_cache)

\* The paths for which the last scan was the later one of the claim: in
\* the list and cached when it started, not a regular file at some moment
\* since the scan before, and a regular file again with the cached
\* modification time when it ran.
Reappeared ==
    IF last_op = "scan" /\ Len(reports) = 1
    THEN {p \in reports[1].absent \cap Range(pre_list) :
            /\ IsRegular(p)
            /\ p \in DOMAIN pre_cache
            /\ pre_cache[p] = disk[p].st_mtime_ns}
    ELSE {}

\* C19: a scan records a path that is in the list and the cache, and that
\* was deleted and recreated with the cached modification time since the
\* scan before, as neither changed nor removed, leaves its cache entry as
\* it was and the path in the list; and a scan that drops no path at all
\* leaves the whole list as it was.
C19_SilentReappearance ==
    \A p \in Reappeared :
      /\ p \notin Range(changed_files)
      /\ p \notin Range(removed_files)
      /\ SameEntry(p)
      /\ p \in Range(file_list)
      /\ (removed_files = <<>> /\ status # "KeyError") => file_list = pre_list

\* A scan after the first has returned: "a" was cached at the scan before,
\* was deleted and recreated since, and nothing was reported.
C19_Witness ==
    /\ "a" \in Reappeared
    /\ ScanReturned
    /\ ~first_scan
    /\ "a" \in observed
    /\ cb_count = 0
    /\ file_list = <<"a", "b">>

----------------------------------------------------------------------------
\* Liveness of the loop (LiveSpec).

\* C20: with both frequencies greater than zero, a subscriber that answers
\* and a callback that returns, the loop dispatches a change scan again and
\* again and a re-enumeration again and again, whatever the periods are and
\* however long the dispatched work takes.
C20_NoStarvation ==
    (new_files_search_frequency > 0 /\ file_update_scan_frequency > 0) =>
      /\ []<>(last_op = "scan")
      /\ []<>(provided.called /\ last_op = "idle")

====
